---- MODULE Spec2Model ----
(***************************************************************************)
(* The voice conversation session of frontend/src/pages/VoiceChatPage.jsx  *)
(* as a state machine.  The variables are the component's React state and  *)
(* refs, the browser objects it owns (microphone prompts, the recorder,    *)
(* queued recorder stop events, the audio element) and the exchange        *)
(* requests in flight.  Every closure the component hands to the browser   *)
(* keeps the values of the render it was created in; those captured values *)
(* travel with the pending prompt, the recorder, the stop event and the    *)
(* request.                                                                *)
(***************************************************************************)
EXTENDS Naturals, Sequences, FiniteSets, Bags, TLC

\* Bound of the model: the turns (exchange requests dispatched, and captures
\* on their way to one) of a behaviour.
MaxRequests == 2

\* JavaScript's null and undefined (an absent field of the response body).
Null == "null"
Undefined == "undefined"

\* A value that is truthy in JavaScript, among the values the model uses.
Truthy(x) == x \notin {Null, Undefined, ""}

\* The answers of the campaign directory, and what the text input may hold.
Directories == {{"c1"}}
CampaignIds == UNION Directories
Texts == {"", "  ", " hi "}

\* String.prototype.trim on the inputs of Texts.
Trim(t) ==
    CASE t = "  " -> ""
      [] t = " hi " -> "hi"
      [] OTHER -> t

\* The session identifier the remote pipeline issues when the n-th request
\* dispatched carries none.
SessionToken(n) == <<"S1", "S2", "S3", "S4", "S5", "S6">>[n]

\* Bodies of a successful response, less the session identifier: the fields
\* handleResponse reads.  The third omits every optional field.
Payloads ==
    { [issues |-> TRUE, lead_score |-> "0.30", lead_status |-> "cold",
       pipeline_info |-> "pA", text_response |-> "a1",
       detected_language |-> "english", audio_base64 |-> "wavA"],
      [issues |-> TRUE, lead_score |-> "0.82", lead_status |-> "hot",
       pipeline_info |-> "pB", text_response |-> "a2",
       detected_language |-> "tamil", audio_base64 |-> "wavB"],
      [issues |-> FALSE, lead_score |-> Undefined, lead_status |-> Undefined,
       pipeline_info |-> Undefined, text_response |-> "a3",
       detected_language |-> "tanglish", audio_base64 |-> Undefined] }

\* The ways an exchange fails.
Failures == {"network", "status_detail", "status_plain", "bad_body"}

\* Wall-clock latencies the client measures.
Latencies == {"120ms"}

ErrNoCampaign == "Please select a campaign first"
ErrMicrophone == "Microphone access denied. Please enable microphone permissions."

VARIABLES
    isRecording, isProcessing, isPlaying,
    sessionId, messages, leadScore, leadStatus, error,
    textInput, audioEnabled, showContext,
    campaigns, selectedCampaign, loadingCampaigns,
    pipelineInfo,
    mediaRecorderRef,   \* the recorder the ref holds: its state and closure
    micPending,         \* bag: startRecording calls suspended on getUserMedia
    orphans,            \* recording recorders the ref no longer holds
    leaked,             \* live streams that never got a started recorder
    stopEvents,         \* bag: recorder stop events queued, not yet delivered
    inflight,           \* bag: exchange requests awaiting their response
    audioEl,            \* bag: the sounds the audio element is playing
    uncaught,           \* a handler ended in an exception nothing caught
    nReq,               \* exchange requests dispatched so far
    turnLimit           \* the turns this behaviour is bounded to

session == <<sessionId, messages, leadScore, leadStatus>>
sessionAll == <<sessionId, messages, leadScore, leadStatus, pipelineInfo, error>>
flags == <<isRecording, isProcessing, isPlaying>>
capture == <<mediaRecorderRef, micPending, orphans, leaked, stopEvents>>
directory == <<campaigns, selectedCampaign, loadingCampaigns>>
count == <<nReq, turnLimit>>
vars == <<isRecording, isProcessing, isPlaying, sessionId, messages, leadScore,
          leadStatus, error, textInput, audioEnabled, showContext, campaigns,
          selectedCampaign, loadingCampaigns, pipelineInfo, mediaRecorderRef,
          micPending, orphans, leaked, stopEvents, inflight, audioEl,
          uncaught, nReq, turnLimit>>

NoRecorder == [state |-> "none"]

\* pipelineInfo when it is null: a snapshot with nothing in it.
NoSnapshot == [info |-> Null, latency_ms |-> Null]

\* What a closure created in the current render sees.  stale is history: it
\* becomes TRUE when the session is reset after the closure was created.
Render ==
    [campaign |-> selectedCampaign, sessionId |-> sessionId,
     audioEnabled |-> audioEnabled, stale |-> FALSE]

One(x) == SetToBag({x})

\* The microphone streams whose tracks are live.
LiveStreams ==
    (IF mediaRecorderRef.state = "recording" THEN 1 ELSE 0) + orphans
        + leaked + BagCardinality(stopEvents)

Start ==
    /\ isRecording = FALSE /\ isProcessing = FALSE /\ isPlaying = FALSE
    /\ sessionId = Null /\ messages = <<>>
    /\ leadScore = Null /\ leadStatus = Null /\ error = Null
    /\ textInput = "" /\ audioEnabled = TRUE /\ showContext = TRUE
    /\ campaigns = {} /\ selectedCampaign = Null /\ loadingCampaigns = TRUE
    /\ pipelineInfo = NoSnapshot
    /\ mediaRecorderRef = NoRecorder
    /\ micPending = EmptyBag /\ orphans = 0 /\ leaked = 0
    /\ stopEvents = EmptyBag
    /\ inflight = EmptyBag /\ audioEl = EmptyBag /\ uncaught = FALSE
    /\ nReq = 0

Init == Start /\ turnLimit = MaxRequests

----
\* fetchCampaigns, resolved: the directory answers items, or the fetch fails.
FetchCampaignsDone(items) ==
    /\ loadingCampaigns
    /\ loadingCampaigns' = FALSE
    /\ campaigns' = items
    /\ UNCHANGED <<flags, sessionAll, textInput, audioEnabled, showContext,
                   selectedCampaign, capture, inflight, audioEl, uncaught,
                   count>>

FetchCampaignsFailed ==
    /\ loadingCampaigns
    /\ loadingCampaigns' = FALSE
    /\ UNCHANGED <<flags, sessionAll, textInput, audioEnabled, showContext,
                   campaigns, selectedCampaign, capture, inflight, audioEl,
                   uncaught, count>>

----
\* Captures that will still dispatch an audio request.
Outstanding ==
    BagCardinality(micPending) + BagCardinality(stopEvents)
        + (IF mediaRecorderRef.state = "recording" THEN 1 ELSE 0)

\* Room for one more turn within the bound; a capture that failed counts.
Room == nReq + Outstanding + leaked < turnLimit

\* The try block of startRecording up to its await: the error is cleared and
\* getUserMedia is called.
requestMicrophone ==
    /\ error' = Null
    /\ micPending' = micPending (+) One(Render)
    /\ UNCHANGED <<flags, session, pipelineInfo, textInput, audioEnabled,
                   showContext, directory, mediaRecorderRef, orphans, leaked,
                   stopEvents, inflight, audioEl, uncaught, count>>

\* Mutant of startRecording: the campaign check is missing.
startRecording_Unchecked == requestMicrophone

\* startRecording, up to its await of getUserMedia.
startRecording ==
    IF selectedCampaign = Null
    THEN /\ error' = ErrNoCampaign
         /\ UNCHANGED <<flags, session, pipelineInfo, textInput, audioEnabled,
                        showContext, directory, capture, inflight, audioEl,
                        uncaught, count>>
    ELSE requestMicrophone

\* startRecording resumed with a stream: the recorder is built, stored in the
\* ref (whatever the ref held before) and started.
MicrophoneGranted(cl) ==
    /\ BagIn(cl, micPending)
    /\ mediaRecorderRef' = [state |-> "recording", cl |-> cl]
    /\ orphans' = orphans + (IF mediaRecorderRef.state = "recording" THEN 1 ELSE 0)
    /\ micPending' = micPending (-) One(cl)
    /\ isRecording' = TRUE
    /\ UNCHANGED <<isProcessing, isPlaying, sessionAll, textInput,
                   audioEnabled, showContext, directory, leaked, stopEvents,
                   inflight, audioEl, uncaught, count>>

\* startRecording resumed with a stream, and the recorder's constructor or
\* its start() throws: the catch block, with the stream's tracks left live.
\* When it is start() that throws, the ref already holds the new recorder.
RecorderFailed(cl) ==
    /\ BagIn(cl, micPending)
    /\ micPending' = micPending (-) One(cl)
    /\ leaked' = leaked + 1
    /\ error' = ErrMicrophone
    /\ \/ UNCHANGED <<mediaRecorderRef, orphans>>
       \/ /\ mediaRecorderRef' = [state |-> "inactive"]
          /\ orphans' = orphans
                + (IF mediaRecorderRef.state = "recording" THEN 1 ELSE 0)
    /\ UNCHANGED <<flags, session, pipelineInfo, textInput, audioEnabled,
                   showContext, directory, stopEvents, inflight, audioEl,
                   uncaught, count>>

\* startRecording resumed with getUserMedia rejected: the catch block.
MicrophoneDenied(cl) ==
    /\ BagIn(cl, micPending)
    /\ micPending' = micPending (-) One(cl)
    /\ error' = ErrMicrophone
    /\ UNCHANGED <<flags, session, pipelineInfo, textInput, audioEnabled,
                   showContext, directory, mediaRecorderRef, orphans, leaked,
                   stopEvents, inflight, audioEl, uncaught, count>>

\* The body of stopRecording's if: MediaRecorder.stop(), then
\* setIsRecording(false).  stop() on a recording recorder queues its stop
\* event; on an inactive one it throws InvalidStateError in some browsers and
\* returns in others.
stopRecorder ==
    IF mediaRecorderRef.state = "recording"
    THEN /\ mediaRecorderRef' = [state |-> "inactive"]
         /\ stopEvents' = stopEvents (+) One(mediaRecorderRef.cl)
         /\ isRecording' = FALSE
         /\ UNCHANGED <<isProcessing, isPlaying, sessionAll, textInput,
                        audioEnabled, showContext, directory, micPending,
                        orphans, leaked, inflight, audioEl, uncaught, count>>
    ELSE \/ /\ uncaught' = TRUE
            /\ UNCHANGED <<flags, sessionAll, textInput, audioEnabled,
                           showContext, directory, capture, inflight, audioEl,
                           count>>
         \/ /\ isRecording' = FALSE
            /\ UNCHANGED <<isProcessing, isPlaying, sessionAll, textInput,
                           audioEnabled, showContext, directory, capture,
                           inflight, audioEl, uncaught, count>>

\* Mutant of stopRecording: the guard tests the ref alone, not isRecording.
stopRecording_RefOnly ==
    IF mediaRecorderRef.state # "none" THEN stopRecorder ELSE UNCHANGED vars

\* stopRecording.
stopRecording ==
    IF mediaRecorderRef.state # "none" /\ isRecording
    THEN stopRecorder
    ELSE UNCHANGED vars

\* An exchange request as dispatched by the closure cl, the n-th of the
\* behaviour.  pre is history: the session as it was when the attempt started.
Request(kind, text, cl) ==
    [kind |-> kind, text |-> text, campaign_id |-> cl.campaign,
     session_id |-> cl.sessionId, audioEnabled |-> cl.audioEnabled,
     n |-> nReq + 1, stale |-> cl.stale, pre |-> session]

\* Mutant of sendAudioToBackend: a user Turn is appended at dispatch, as
\* sendTextMessage does.
sendAudioToBackend_AppendsUser(cl) ==
    /\ isProcessing' = TRUE
    /\ error' = Null
    /\ messages' = Append(messages,
            [role |-> "user", content |-> "voice", language |-> Undefined])
    /\ inflight' = inflight (+) One(Request("audio", Null, cl))
    /\ nReq' = nReq + 1
    /\ UNCHANGED <<isRecording, isPlaying, sessionId, leadScore, leadStatus,
                   pipelineInfo, textInput, audioEnabled, showContext,
                   directory, mediaRecorderRef, micPending, orphans, leaked,
                   audioEl, uncaught, turnLimit>>

\* sendAudioToBackend, called by the closure cl, up to its await of fetch.
sendAudioToBackend(cl) ==
    /\ isProcessing' = TRUE
    /\ error' = Null
    /\ inflight' = inflight (+) One(Request("audio", Null, cl))
    /\ nReq' = nReq + 1
    /\ UNCHANGED <<isRecording, isPlaying, session, pipelineInfo, textInput,
                   audioEnabled, showContext, directory, mediaRecorderRef,
                   micPending, orphans, leaked, audioEl, uncaught, turnLimit>>

\* Mutant of RecorderStopped: the stream's tracks are not stopped.
RecorderStopped_KeepsTracks(cl) ==
    /\ BagIn(cl, stopEvents)
    /\ stopEvents' = stopEvents (-) One(cl)
    /\ leaked' = leaked + 1
    /\ isProcessing' = TRUE
    /\ error' = Null
    /\ inflight' = inflight (+) One(Request("audio", Null, cl))
    /\ nReq' = nReq + 1
    /\ UNCHANGED <<isRecording, isPlaying, session, pipelineInfo, textInput,
                   audioEnabled, showContext, directory, mediaRecorderRef,
                   micPending, orphans, audioEl, uncaught, turnLimit>>

\* The recorder's onstop handler: the stream's tracks are stopped, then
\* sendAudioToBackend.
RecorderStopped(cl) ==
    /\ BagIn(cl, stopEvents)
    /\ stopEvents' = stopEvents (-) One(cl)
    /\ sendAudioToBackend(cl)

\* Mutant of sendTextMessage: the campaign is checked before the input.
sendTextMessage_CampaignFirst ==
    IF selectedCampaign = Null
    THEN /\ error' = ErrNoCampaign
         /\ UNCHANGED <<flags, session, pipelineInfo, textInput, audioEnabled,
                        showContext, directory, capture, inflight, audioEl,
                        uncaught, count>>
    ELSE IF Trim(textInput) = ""
    THEN UNCHANGED vars
    ELSE /\ textInput' = ""
         /\ isProcessing' = TRUE
         /\ error' = Null
         /\ messages' = Append(messages,
                [role |-> "user", content |-> Trim(textInput),
                 language |-> Undefined])
         /\ inflight' = inflight (+) One(Request("text", Trim(textInput), Render))
         /\ nReq' = nReq + 1
         /\ UNCHANGED <<isRecording, isPlaying, sessionId, leadScore,
                        leadStatus, pipelineInfo, audioEnabled, showContext,
                        directory, capture, audioEl, uncaught, turnLimit>>

\* sendTextMessage, up to its await of fetch.
sendTextMessage ==
    IF Trim(textInput) = ""
    THEN UNCHANGED vars
    ELSE IF selectedCampaign = Null
    THEN /\ error' = ErrNoCampaign
         /\ UNCHANGED <<flags, session, pipelineInfo, textInput, audioEnabled,
                        showContext, directory, capture, inflight, audioEl,
                        uncaught, count>>
    ELSE /\ textInput' = ""
         /\ isProcessing' = TRUE
         /\ error' = Null
         /\ messages' = Append(messages,
                [role |-> "user", content |-> Trim(textInput),
                 language |-> Undefined])
         /\ inflight' = inflight (+) One(Request("text", Trim(textInput), Render))
         /\ nReq' = nReq + 1
         /\ UNCHANGED <<isRecording, isPlaying, sessionId, leadScore,
                        leadStatus, pipelineInfo, audioEnabled, showContext,
                        directory, capture, audioEl, uncaught, turnLimit>>

----
\* The response body the remote pipeline sends for request r: payload p, with
\* the session identifier of the request echoed, or a new one issued.
ResponseBody(r, p) ==
    [session_id |-> IF ~p.issues THEN Undefined
                    ELSE IF Truthy(r.session_id) THEN r.session_id
                    ELSE SessionToken(r.n),
     lead_score |-> p.lead_score, lead_status |-> p.lead_status,
     pipeline_info |-> p.pipeline_info, text_response |-> p.text_response,
     detected_language |-> p.detected_language,
     audio_base64 |-> p.audio_base64]

\* The first lines of handleResponse: what each setter leaves in its field.
adoptedSessionId(data) ==
    IF Truthy(data.session_id) THEN data.session_id ELSE sessionId

newLeadScore(data) ==
    IF data.lead_score # Null THEN data.lead_score ELSE leadScore

\* Mutant of newLeadStatus: a status once set is kept.
newLeadStatus_Sticky(data) ==
    IF Truthy(data.lead_status) /\ ~Truthy(leadStatus) THEN data.lead_status
    ELSE leadStatus

newLeadStatus(data) ==
    IF Truthy(data.lead_status) THEN data.lead_status ELSE leadStatus

newPipelineInfo(data, latency) ==
    IF Truthy(data.pipeline_info)
    THEN [info |-> data.pipeline_info, latency_ms |-> latency]
    ELSE pipelineInfo

\* Mutant of play: every response plays in an audio element of its own.
play_Overlapping(src) == audioEl (+) One(src)

\* What the audio element plays once its src is assigned and play() called:
\* the new source alone, whatever it was playing.
play(src) == One(src)

\* Mutant of handleResponse: the reply replaces the transcript.
handleResponse_Replaces(data, enabled, latency) ==
    /\ sessionId' = adoptedSessionId(data)
    /\ leadScore' = newLeadScore(data)
    /\ leadStatus' = newLeadStatus(data)
    /\ pipelineInfo' = newPipelineInfo(data, latency)
    /\ messages' = <<[role |-> "assistant", content |-> data.text_response,
                      language |-> data.detected_language]>>
    /\ IF enabled /\ Truthy(data.audio_base64)
       THEN audioEl' = play(data.audio_base64) /\ isPlaying' = TRUE
       ELSE UNCHANGED <<audioEl, isPlaying>>

\* handleResponse, called by a closure that saw audioEnabled as enabled.
handleResponse(data, enabled, latency) ==
    /\ sessionId' = adoptedSessionId(data)
    /\ leadScore' = newLeadScore(data)
    /\ leadStatus' = newLeadStatus(data)
    /\ pipelineInfo' = newPipelineInfo(data, latency)
    /\ messages' = Append(messages,
            [role |-> "assistant", content |-> data.text_response,
             language |-> data.detected_language])
    /\ IF enabled /\ Truthy(data.audio_base64)
       THEN audioEl' = play(data.audio_base64) /\ isPlaying' = TRUE
       ELSE UNCHANGED <<audioEl, isPlaying>>

\* The fetch of request r resolved with a success status and a parsable body:
\* handleResponse, then the finally block.
ExchangeSucceeded(r, p, latency) ==
    /\ BagIn(r, inflight)
    /\ handleResponse(ResponseBody(r, p), r.audioEnabled, latency)
    /\ isProcessing' = FALSE
    /\ inflight' = inflight (-) One(r)
    /\ UNCHANGED <<isRecording, error, textInput, audioEnabled, showContext,
                   directory, capture, uncaught, count>>

\* Mutant of FailureMessage: the detail of the error body is not read.
FailureMessage_NoDetail(f) ==
    CASE f = "network" -> "Failed to fetch"
      [] f = "status_detail" -> "HTTP error! status: 500"
      [] f = "status_plain" -> "HTTP error! status: 500"
      [] f = "bad_body" -> "Unexpected end of JSON input"

\* err.message in the catch block, for each way the exchange fails.
FailureMessage(f) ==
    CASE f = "network" -> "Failed to fetch"
      [] f = "status_detail" -> "Campaign not found"
      [] f = "status_plain" -> "HTTP error! status: 500"
      [] f = "bad_body" -> "Unexpected end of JSON input"

\* Mutant of ExchangeFailed: the catch block without the finally block.
ExchangeFailed_NoFinally(r, f) ==
    /\ BagIn(r, inflight)
    /\ error' = FailureMessage(f)
    /\ inflight' = inflight (-) One(r)
    /\ UNCHANGED <<flags, session, pipelineInfo, textInput, audioEnabled,
                   showContext, directory, capture, audioEl, uncaught, count>>

\* The exchange of request r failed: the catch block, then the finally block.
ExchangeFailed(r, f) ==
    /\ BagIn(r, inflight)
    /\ error' = FailureMessage(f)
    /\ isProcessing' = FALSE
    /\ inflight' = inflight (-) One(r)
    /\ UNCHANGED <<isRecording, isPlaying, session, pipelineInfo, textInput,
                   audioEnabled, showContext, directory, capture, audioEl,
                   uncaught, count>>

----
\* The history flag of every closure in bag b set: the session was reset.
Stale(x) == [x EXCEPT !.stale = TRUE]
MarkStale(b) ==
    LET from == BagToSet(b)
    IN  [y \in {Stale(x) : x \in from} |->
            (IF y \in from THEN b[y] ELSE 0)
          + (IF [y EXCEPT !.stale = FALSE] \in from
             THEN b[[y EXCEPT !.stale = FALSE]] ELSE 0)]

\* The history flags of every pending closure record a reset.
recordReset ==
    /\ micPending' = MarkStale(micPending)
    /\ stopEvents' = MarkStale(stopEvents)
    /\ inflight' = MarkStale(inflight)
    /\ mediaRecorderRef' = IF mediaRecorderRef.state = "recording"
                           THEN [mediaRecorderRef EXCEPT !.cl = Stale(@)]
                           ELSE mediaRecorderRef

\* Mutant of startNewSession: setPipelineInfo(null) is missing.
startNewSession_KeepsSnapshot ==
    /\ sessionId' = Null /\ messages' = <<>> /\ leadScore' = Null
    /\ leadStatus' = Null /\ error' = Null /\ pipelineInfo' = pipelineInfo
    /\ recordReset

\* startNewSession: the six setters.
startNewSession ==
    /\ sessionId' = Null /\ messages' = <<>> /\ leadScore' = Null
    /\ leadStatus' = Null /\ error' = Null /\ pipelineInfo' = NoSnapshot
    /\ recordReset

\* The New button.
NewSessionClick ==
    /\ startNewSession
    /\ UNCHANGED <<flags, textInput, audioEnabled, showContext, directory,
                   orphans, leaked, audioEl, uncaught, count>>

\* The campaign select's onChange: c is the option chosen, Null the
\* placeholder option, for which campaigns.find returns undefined.
SelectCampaign(c) ==
    /\ ~loadingCampaigns
    /\ c \in campaigns \cup {Null}
    /\ c # selectedCampaign
    /\ selectedCampaign' = c
    /\ startNewSession
    /\ UNCHANGED <<flags, textInput, audioEnabled, showContext, campaigns,
                   loadingCampaigns, orphans, leaked, audioEl, uncaught,
                   count>>

\* The mute button.
ToggleAudio ==
    /\ audioEnabled' = ~audioEnabled
    /\ UNCHANGED <<flags, sessionAll, textInput, showContext, directory,
                   capture, inflight, audioEl, uncaught, count>>

\* Mutant of PlaybackOver: the handler also ends the exchange in progress.
PlaybackOver_EndsExchange ==
    /\ audioEl' = EmptyBag
    /\ isPlaying' = FALSE
    /\ isProcessing' = FALSE
    /\ UNCHANGED <<isRecording, sessionAll, textInput, audioEnabled,
                   showContext, directory, capture, inflight, uncaught, count>>

\* The context panel's show/hide button.
TogglePanel ==
    /\ showContext' = ~showContext
    /\ UNCHANGED <<flags, sessionAll, textInput, audioEnabled, directory,
                   capture, inflight, audioEl, uncaught, count>>

\* The audio element's onended and onerror handlers, and the catch of play().
PlaybackOver ==
    /\ audioEl' = EmptyBag
    /\ isPlaying' = FALSE
    /\ UNCHANGED <<isRecording, isProcessing, sessionAll, textInput,
                   audioEnabled, showContext, directory, capture, inflight,
                   uncaught, count>>

AudioEnded == audioEl # EmptyBag /\ PlaybackOver
AudioError == audioEl # EmptyBag /\ PlaybackOver
PlayRejected == audioEl # EmptyBag /\ PlaybackOver

----
\* The disabled attributes of the input area.
MicDisabled == isProcessing \/ selectedCampaign = Null
InputDisabled == isProcessing \/ selectedCampaign = Null
SendDisabled == isProcessing \/ Trim(textInput) = "" \/ selectedCampaign = Null

\* The text input's onChange.
TypeText(t) ==
    /\ ~InputDisabled
    /\ t # textInput
    /\ textInput' = t
    /\ UNCHANGED <<flags, sessionAll, audioEnabled, showContext, directory,
                   capture, inflight, audioEl, uncaught, count>>

\* The mic button's onClick.
MicButtonClick ==
    /\ ~MicDisabled
    /\ IF isRecording THEN stopRecording ELSE Room /\ startRecording

\* The send button's onClick, and Enter in the text input.
SendButtonClick == ~SendDisabled /\ Room /\ sendTextMessage
EnterKey == ~InputDisabled /\ (Trim(textInput) = "" \/ Room) /\ sendTextMessage

\* The handlers called where the rendered controls do not offer them: each
\* is left to its own guard.
StopWhenNotRecording == ~isRecording /\ stopRecording
StartRecordingUnbound == selectedCampaign = Null /\ startRecording
SendTextUnbound == selectedCampaign = Null /\ sendTextMessage

Next ==
    \/ \E items \in Directories : FetchCampaignsDone(items)
    \/ FetchCampaignsFailed
    \/ \E c \in CampaignIds \cup {Null} : SelectCampaign(c)
    \/ NewSessionClick
    \/ ToggleAudio
    \/ \E t \in Texts : TypeText(t)
    \/ MicButtonClick
    \/ \E cl \in BagToSet(micPending) : MicrophoneGranted(cl)
    \/ \E cl \in BagToSet(micPending) : MicrophoneDenied(cl)
    \/ \E cl \in BagToSet(micPending) : RecorderFailed(cl)
    \/ \E cl \in BagToSet(stopEvents) : RecorderStopped(cl)
    \/ SendButtonClick
    \/ EnterKey
    \/ \E r \in BagToSet(inflight), p \in Payloads, l \in Latencies :
            ExchangeSucceeded(r, p, l)
    \/ \E r \in BagToSet(inflight), f \in Failures : ExchangeFailed(r, f)
    \/ AudioEnded
    \/ AudioError
    \/ PlayRejected
    \/ StopWhenNotRecording
    \/ StartRecordingUnbound
    \/ SendTextUnbound

Spec == Init /\ [][Next]_vars

----
\* The turn pipeline alone, one turn deeper: a campaign is bound once, and
\* the session is neither reset nor muted.
InitTurns == Start /\ turnLimit = MaxRequests + 1

NextTurns ==
    \/ \E items \in Directories : FetchCampaignsDone(items)
    \/ \E c \in CampaignIds : selectedCampaign = Null /\ SelectCampaign(c)
    \/ TypeText(" hi ")
    \/ MicButtonClick
    \/ \E cl \in BagToSet(micPending) : MicrophoneGranted(cl)
    \/ \E cl \in BagToSet(stopEvents) : RecorderStopped(cl)
    \/ EnterKey
    \/ \E r \in BagToSet(inflight), p \in Payloads, l \in Latencies :
            ExchangeSucceeded(r, p, l)
    \/ \E r \in BagToSet(inflight) : ExchangeFailed(r, "network")

SpecTurns == InitTurns /\ [][NextTurns]_vars

----
\* The turn pipeline with a directory of two campaigns, the user switching
\* between them at any time.
TwoCampaigns == {"c1", "c2"}

NextSwitch ==
    \/ FetchCampaignsDone(TwoCampaigns)
    \/ \E c \in TwoCampaigns : SelectCampaign(c)
    \/ TypeText(" hi ")
    \/ MicButtonClick
    \/ \E cl \in BagToSet(micPending) : MicrophoneGranted(cl)
    \/ \E cl \in BagToSet(stopEvents) : RecorderStopped(cl)
    \/ EnterKey
    \/ \E r \in BagToSet(inflight), p \in Payloads, l \in Latencies :
            ExchangeSucceeded(r, p, l)
    \/ \E r \in BagToSet(inflight) : ExchangeFailed(r, "network")

SpecSwitch == Init /\ [][NextSwitch]_vars

\* The turn pipeline with the audio element's events: playback is never
\* muted, so every reply that carries audio is played.
NextPlayback ==
    \/ \E items \in Directories : FetchCampaignsDone(items)
    \/ \E c \in CampaignIds : selectedCampaign = Null /\ SelectCampaign(c)
    \/ TypeText(" hi ")
    \/ MicButtonClick
    \/ \E cl \in BagToSet(micPending) : MicrophoneGranted(cl)
    \/ \E cl \in BagToSet(stopEvents) : RecorderStopped(cl)
    \/ EnterKey
    \/ \E r \in BagToSet(inflight), p \in Payloads, l \in Latencies :
            ExchangeSucceeded(r, p, l)
    \/ \E r \in BagToSet(inflight) : ExchangeFailed(r, "network")
    \/ AudioEnded
    \/ AudioError
    \/ PlayRejected

SpecPlayback == Init /\ [][NextPlayback]_vars

\* The turn pipeline with the header's buttons: new session, campaign
\* select, mute and the context panel's show/hide.
NextPanel ==
    \/ \E items \in Directories : FetchCampaignsDone(items)
    \/ \E c \in CampaignIds \cup {Null} : SelectCampaign(c)
    \/ NewSessionClick
    \/ ToggleAudio
    \/ TogglePanel
    \/ TypeText(" hi ")
    \/ MicButtonClick
    \/ \E cl \in BagToSet(micPending) : MicrophoneGranted(cl)
    \/ \E cl \in BagToSet(stopEvents) : RecorderStopped(cl)
    \/ EnterKey
    \/ \E r \in BagToSet(inflight), p \in Payloads, l \in Latencies :
            ExchangeSucceeded(r, p, l)
    \/ \E r \in BagToSet(inflight) : ExchangeFailed(r, "network")

SpecPanel == Init /\ [][NextPanel]_vars

\* The n-th request dispatched is awaiting its response.
InFlight(n) == \E r \in BagToSet(inflight) : r.n = n

\* The fetch of the n-th request settles: the remote side answers, or the
\* transport reports an error.
Answered(n) ==
    \E r \in BagToSet(inflight) :
        /\ r.n = n
        /\ \/ \E p \in Payloads, l \in Latencies : ExchangeSucceeded(r, p, l)
           \/ ExchangeFailed(r, "network")

\* The turn pipeline under the assumption that every fetch settles.
SpecAnswered ==
    SpecPlayback /\ \A n \in 1..(MaxRequests + 1) : WF_vars(Answered(n))

----
\* C1: Recording and Exchanging (isProcessing, or an exchange request in
\* flight) are never both true.
C1_RecordingExcludesExchanging ==
    ~(isRecording /\ (isProcessing \/ inflight # EmptyBag))

\* C2: at most one exchange request, audio or text, is in flight at any
\* instant.
C2_OneRequestInFlight == BagCardinality(inflight) <= 1

\* C3: when an exchange fails, sessionId, turns, leadScore and leadStatus are
\* what they were immediately before the attempt started.
C3_FailureRestoresSession ==
    [][\A r \in BagToSet(inflight), f \in Failures :
            ExchangeFailed(r, f) => session' = r.pre]_vars

\* C4: the result of an exchange that a session reset or campaign switch
\* overtook (in flight at the reset, or recorded before it) changes none of
\* sessionId, turns, leadScore, leadStatus, PipelineSnapshot and error.
C4_StaleResultSuppressed ==
    [][\A r \in BagToSet(inflight) :
            /\ r.stale
            /\ \/ \E p \in Payloads, l \in Latencies : ExchangeSucceeded(r, p, l)
               \/ \E f \in Failures : ExchangeFailed(r, f)
            => UNCHANGED sessionAll]_vars

\* C5: immediately after startNewSession (the New button) or any change of
\* the selected campaign, sessionId, leadScore, leadStatus, PipelineSnapshot
\* and error are null and turns is empty, whatever the state before.
Cleared == <<Null, <<>>, Null, Null, NoSnapshot, Null>>
C5_ResetClearsSession ==
    [][(NewSessionClick \/ selectedCampaign' # selectedCampaign)
            => sessionAll' = Cleared]_vars

\* C5 witness: the session has just been cleared under an exchange that is
\* still in flight, while a response is playing.
C5_ResetWhileExchangingAndPlaying ==
    /\ sessionAll = Cleared
    /\ isProcessing /\ isPlaying
    /\ \E r \in BagToSet(inflight) : r.stale /\ r.kind = "text"

\* C6: while an exchange is in flight, a click to start a recording changes
\* nothing: no microphone request, no recorder, isRecording, error and the
\* session fields as before.
C6_StartRejectedWhileExchanging ==
    [][(inflight # EmptyBag /\ ~isRecording /\ MicButtonClick)
            => UNCHANGED <<capture, isRecording, sessionAll>>]_vars

\* C7: after a successful turn whose result carries leadStatus s and
\* leadScore v, leadStatus is s and leadScore is v, whatever they were.
C7_LastLeadWins ==
    [][\A r \in BagToSet(inflight), p \in Payloads, l \in Latencies :
            /\ ExchangeSucceeded(r, p, l)
            /\ Truthy(p.lead_status) /\ p.lead_score \notin {Null, Undefined}
            => leadStatus' = p.lead_status /\ leadScore' = p.lead_score]_vars

\* C7 witness: the reply a2 (hot, 0.82) was handled last, after the reply a1
\* (cold, 0.30) earlier in the same session, and the lead is hot, 0.82.
C7_HotOverwroteCold ==
    /\ Len(messages) >= 2
    /\ messages[Len(messages)].content = "a2"
    /\ \E i \in 1..(Len(messages) - 1) : messages[i].content = "a1"
    /\ leadStatus = "hot" /\ leadScore = "0.82"

\* C8: when a text turn succeeds, turns holds a user Turn with the text sent,
\* before the assistant Turn of the same exchange.
C8_UserTurnPrecedesReply ==
    [][\A r \in BagToSet(inflight), p \in Payloads, l \in Latencies :
            ExchangeSucceeded(r, p, l) /\ r.kind = "text"
            => \E i \in 1..(Len(messages') - 1) :
                    /\ messages'[i].role = "user"
                    /\ messages'[i].content = r.text]_vars

\* C9: stopRecording called when not recording changes no state and raises
\* no error, however often it is called.
C9_StopWhenIdleIsNoOp ==
    [][(~isRecording /\ stopRecording) => UNCHANGED vars]_vars

\* C9 witness: not recording, with a stopped recorder still in the ref for a
\* defensive stop to act on.
C9_IdleWithStoppedRecorder ==
    ~isRecording /\ mediaRecorderRef.state = "inactive" /\ ~uncaught

\* C10: with no campaign bound, startRecording and sendTextMessage with
\* non-empty text set the 'select a campaign' error and do nothing else: no
\* request, no microphone request, the session fields as before.
C10_NoCampaignAborts ==
    [][(/\ selectedCampaign = Null
        /\ startRecording \/ (Trim(textInput) # "" /\ sendTextMessage))
            => /\ error' = ErrNoCampaign
               /\ UNCHANGED <<session, pipelineInfo, inflight, capture, flags,
                              textInput, nReq>>]_vars

\* C10 witness: no campaign is bound, text is waiting in the input, and the
\* turn request has been refused.
C10_RefusedWithTextWaiting ==
    selectedCampaign = Null /\ Trim(textInput) # "" /\ error = ErrNoCampaign

\* C11: once a successful turn has set sessionId to S, every request
\* dispatched before the next reset carries S as its session identifier, the
\* audio request of a recording started before S was adopted included.
C11_RequestCarriesSession ==
    [][\A r \in BagToSet(inflight') :
          (nReq' = nReq + 1 /\ r.n = nReq' /\ ~r.stale /\ Truthy(sessionId))
              => r.session_id = sessionId]_vars

\* C12: the audio element plays at most one synthesized response at any
\* instant, and a response with audio handled by a closure that saw playback
\* enabled leaves its own audio playing alone, whatever was playing before.
C12_OnePlayback ==
    [][/\ BagCardinality(audioEl') <= 1
       /\ \A r \in BagToSet(inflight), p \in Payloads, l \in Latencies :
             (ExchangeSucceeded(r, p, l) /\ r.audioEnabled
                 /\ Truthy(p.audio_base64))
                 => audioEl' = One(p.audio_base64)]_vars

\* The second reply's audio playing, the first reply's never having ended.
C12_SecondReplacedFirst ==
    /\ audioEl = One("wavB")
    /\ \E i, j \in 1..Len(messages) :
          i < j /\ messages[i].content = "a1" /\ messages[j].content = "a2"

\* C13: a successful response handled while playback is disabled starts no
\* playback and does not make isPlaying true, whenever the user disabled
\* playback; the assistant Turn is appended all the same.
C13_MutedResponseIsSilent ==
    [][\A r \in BagToSet(inflight), p \in Payloads, l \in Latencies :
          (ExchangeSucceeded(r, p, l) /\ ~audioEnabled)
              => /\ audioEl' = audioEl
                 /\ (isPlaying' => isPlaying)
                 /\ messages' = Append(messages,
                        [role |-> "assistant", content |-> p.text_response,
                         language |-> p.detected_language])]_vars

\* C14: in no state is the session idle (not recording, no recorder stop
\* event pending) while a microphone stream acquired by startRecording still
\* has live tracks.
C14_IdleHoldsNoStream ==
    (~isRecording /\ stopEvents = EmptyBag) => LiveStreams = 0

\* C15: at most one capture, a microphone stream with its started recorder,
\* is active at any instant.
C15_OneCapture ==
    (IF mediaRecorderRef.state = "recording" THEN 1 ELSE 0) + orphans <= 1

\* C16: turns never grow while an exchange is in flight: a step that appends
\* a Turn is the terminal outcome of the exchange and leaves none in flight.
C16_TurnsGrowAtOutcomeOnly ==
    [][Len(messages') > Len(messages)
          => inflight # EmptyBag /\ inflight' = EmptyBag]_vars

\* C17: every request dispatched carries the id of the campaign bound at
\* dispatch time, and none dispatched after a campaign switch carries the
\* session identifier of the session the switch ended.
C17_RequestCarriesBoundCampaign ==
    [][\A r \in BagToSet(inflight') :
          (nReq' = nReq + 1 /\ r.n = nReq')
              => /\ r.campaign_id = selectedCampaign
                 /\ r.stale => r.session_id = Null]_vars

\* C18: every successful exchange appends exactly one assistant Turn with
\* the returned text and language, adopts the returned sessionId when one is
\* returned and keeps the current one otherwise, and leaves the session not
\* Exchanging: isProcessing false and no request in flight.
C18_SuccessCompletesTurn ==
    [][\A r \in BagToSet(inflight), p \in Payloads, l \in Latencies :
          ExchangeSucceeded(r, p, l)
              => /\ messages' = Append(messages,
                        [role |-> "assistant", content |-> p.text_response,
                         language |-> p.detected_language])
                 /\ sessionId' = IF Truthy(ResponseBody(r, p).session_id)
                                 THEN ResponseBody(r, p).session_id
                                 ELSE sessionId
                 /\ ~isProcessing' /\ inflight' = EmptyBag]_vars

\* C19: a successful turn whose result omits the lead score leaves leadScore
\* at its prior value, and one whose result omits the lead status leaves
\* leadStatus at its prior value.
C19_AbsentLeadKeepsPrior ==
    [][\A r \in BagToSet(inflight), p \in Payloads, l \in Latencies :
          ExchangeSucceeded(r, p, l)
              => /\ p.lead_score = Undefined => leadScore' = leadScore
                 /\ p.lead_status = Undefined => leadStatus' = leadStatus]_vars

\* C20: after every successful turn the stored pipeline snapshot is built
\* from that turn's result and latency alone: it is that turn's snapshot, or
\* none when the result carries none, never an earlier turn's.
C20_SnapshotIsOfLastTurn ==
    [][\A r \in BagToSet(inflight), p \in Payloads, l \in Latencies :
          ExchangeSucceeded(r, p, l)
              => \/ pipelineInfo' = [info |-> p.pipeline_info, latency_ms |-> l]
                 \/ ~Truthy(p.pipeline_info) /\ pipelineInfo' = NoSnapshot]_vars

\* C21: the end of a playback, by completion, by an error event of the audio
\* element or by a rejected play(), sets isPlaying to false and leaves
\* sessionId, turns, leadScore, leadStatus, the pipeline snapshot and the
\* Recording and Exchanging flags unchanged.
C21_PlaybackFailureNotFatal ==
    [][(AudioEnded \/ AudioError \/ PlayRejected)
          => /\ ~isPlaying'
             /\ UNCHANGED <<sessionId, messages, leadScore, leadStatus,
                            pipelineInfo, isProcessing, isRecording, inflight>>]_vars

\* A reply's audio was played and is over while a later exchange is still in
\* progress, the session as the reply left it.
C21_PlaybackOverDuringExchange ==
    /\ ~isPlaying /\ audioEl = EmptyBag
    /\ isProcessing /\ inflight # EmptyBag
    /\ sessionId = "S1" /\ leadStatus = "cold"
    /\ \E i \in 1..Len(messages) : messages[i].content = "a1"

\* C22: every dispatched exchange reaches its terminal outcome, given that
\* its fetch settles, and whenever no exchange is in flight isProcessing is
\* false, after a success and after a failure alike.
C22_ExchangeTerminates ==
    /\ [](inflight = EmptyBag => ~isProcessing)
    /\ \A n \in 1..(MaxRequests + 1) : InFlight(n) ~> ~InFlight(n)

\* A failed exchange behind, nothing in flight, the session idle again.
C22_IdleAfterFailure ==
    /\ nReq >= 1 /\ inflight = EmptyBag /\ ~isProcessing
    /\ error = FailureMessage("network")

\* C23: every failed exchange surfaces a non-empty error message and is not
\* retried: the detail of the error body when a non-success status has one,
\* a generic message when it has none, an error message for a network
\* failure and for an unparsable body; no assistant Turn is appended and no
\* session field changes.
C23_FailureSurfacesMessage ==
    [][\A r \in BagToSet(inflight), f \in Failures :
          ExchangeFailed(r, f)
              => /\ error' \notin {Null, Undefined, ""}
                 /\ f = "status_detail" => error' = "Campaign not found"
                 /\ f = "status_plain" => error' = "HTTP error! status: 500"
                 /\ UNCHANGED <<session, pipelineInfo, nReq>>
                 /\ inflight' = inflight (-) One(r)]_vars

\* An established session after a second exchange answered with a body
\* that does not parse.
C23_UnparsableBodyAfterFirstTurn ==
    /\ error = FailureMessage("bad_body")
    /\ sessionId = "S1" /\ nReq = 2 /\ inflight = EmptyBag
    /\ \E i \in 1..Len(messages) : messages[i].role = "assistant"

\* C24: when startRecording fails to obtain the microphone the session is
\* idle afterwards (isRecording false), an error message is surfaced, no
\* request is dispatched and sessionId, turns, leadScore, leadStatus and the
\* pipeline snapshot are unchanged.
C24_MicrophoneRefusedStaysIdle ==
    [][\A cl \in BagToSet(micPending) :
          MicrophoneDenied(cl)
              => /\ ~isRecording'
                 /\ error' \notin {Null, Undefined, ""}
                 /\ UNCHANGED <<inflight, nReq, session, pipelineInfo>>]_vars

\* C25: every request dispatched contains exactly one of audio and text and
\* a campaign id, and contains a session id exactly when the session has
\* one; the stop event of a recording dispatches exactly one request, an
\* audio one.
C25_RequestWellFormed ==
    [][/\ \A r \in BagToSet(inflight') :
            (nReq' = nReq + 1 /\ r.n = nReq')
                => /\ \/ r.kind = "audio" /\ r.text = Null
                      \/ r.kind = "text" /\ Truthy(r.text)
                   /\ Truthy(r.campaign_id)
                   /\ Truthy(r.session_id) <=> Truthy(sessionId)
       /\ \A cl \in BagToSet(stopEvents) :
            RecorderStopped(cl)
                => /\ nReq' = nReq + 1
                   /\ \E r \in BagToSet(inflight') :
                         /\ r.n = nReq' /\ r.kind = "audio"
                         /\ inflight' = inflight (+) One(r)]_vars

\* C26: isProcessing is true in every state in which at least one exchange
\* request is in flight.
C26_ProcessingWhileInFlight == inflight # EmptyBag => isProcessing

\* C27: every step other than a new session and a campaign switch leaves
\* the Turns there are unchanged and in order, the earlier transcript a
\* prefix of the later; a mute toggle and a panel toggle change no session
\* field.
C27_TranscriptAppendOnly ==
    [][/\ (NewSessionClick \/ selectedCampaign' # selectedCampaign)
          \/ /\ Len(messages) <= Len(messages')
             /\ SubSeq(messages', 1, Len(messages)) = messages
       /\ (ToggleAudio \/ TogglePanel) => UNCHANGED sessionAll]_vars

\* Two text turns in the transcript, playback muted and the panel hidden
\* on the way.
C27_TwoTurnsMutedPanelHidden ==
    /\ Len(messages) = 4 /\ messages[1].role = "user"
    /\ messages[4].role = "assistant"
    /\ ~audioEnabled /\ ~showContext

\* C28: an audio turn adds exactly one Turn, the assistant's reply: no Turn
\* is appended while recording, on stopping or when the audio request is
\* dispatched, and the successful response appends the assistant Turn alone.
C28_AudioTurnAddsReplyOnly ==
    [][/\ (\/ MicButtonClick
           \/ \E cl \in BagToSet(micPending) : MicrophoneGranted(cl)
           \/ \E cl \in BagToSet(stopEvents) : RecorderStopped(cl))
          => messages' = messages
       /\ \A r \in BagToSet(inflight), p \in Payloads, l \in Latencies :
            (ExchangeSucceeded(r, p, l) /\ r.kind = "audio")
                => /\ Len(messages') = Len(messages) + 1
                   /\ SubSeq(messages', 1, Len(messages)) = messages
                   /\ messages'[Len(messages')].role = "assistant"]_vars

\* One audio turn done and nothing else: the transcript is the reply alone.
C28_TranscriptOfOneAudioTurn ==
    /\ nReq = 1 /\ inflight = EmptyBag /\ sessionId = "S1"
    /\ Len(messages) = 1 /\ messages[1].role = "assistant"

\* C29: the recorder's stop event releases the recording's stream in the
\* step that dispatches the audio request, and no outcome of an exchange,
\* success or failure, changes which streams are live.
C29_MicReleasedAtDispatch ==
    [][/\ \A cl \in BagToSet(stopEvents) :
            RecorderStopped(cl)
                => /\ LiveStreams' = LiveStreams - 1
                   /\ BagCardinality(inflight') = BagCardinality(inflight) + 1
       /\ \A r \in BagToSet(inflight) :
            (\/ \E p \in Payloads, l \in Latencies : ExchangeSucceeded(r, p, l)
             \/ \E f \in Failures : ExchangeFailed(r, f))
                => LiveStreams' = LiveStreams]_vars

\* An audio request awaiting its response with no microphone stream live.
C29_AudioInFlightMicFree ==
    /\ \E r \in BagToSet(inflight) : r.kind = "audio"
    /\ LiveStreams = 0 /\ ~isRecording /\ micPending = EmptyBag

\* C30: sendTextMessage with an empty or whitespace-only input changes
\* nothing: no Turn, no request, and error, isProcessing and the text input
\* as they were, whether or not a campaign is bound.
C30_BlankTextIsNoOp ==
    [][(Trim(textInput) = "" /\ sendTextMessage) => UNCHANGED vars]_vars

\* Whitespace waiting in the text input with no campaign bound and no error
\* shown.
C30_BlankTextUnbound ==
    /\ textInput = "  " /\ selectedCampaign = Null
    /\ error = Null /\ ~isProcessing /\ nReq >= 1
====
